---- MODULE Spec2Model ----
(***************************************************************************)
(* Model of the HR screening agent: the rule-based Decision Engine of      *)
(* src/src/agents/resume_analyzer.py, the notifier of                      *)
(* src/src/agents/email_sender.py, the loader of                           *)
(* src/src/agents/github_loader.py and the LangGraph pipeline of           *)
(* src/src/workflows/langgraph_workflow.py.                                *)
(*                                                                         *)
(* Floats are modelled by exact rationals [n, d] (d > 0, reduced).  A      *)
(* resume text is modelled by what the analyzers read from it: the skill   *)
(* patterns it contains, the matches of the experience patterns, the year  *)
(* ranges, the seniority indicators and the keyword counts.                *)
(***************************************************************************)
EXTENDS Integers, Sequences, FiniteSets, TLC

\* ---------------------------------------------------------------- bounds
MaxFiles == 2
MaxRequired == 2
MaxPreferred == 1
MaxYears == 3
MaxMinExp == 7
MaxPeriods == 3
MaxSpan == 2

\* ----------------------------------------------------------- fixed point
\* A float x is modelled by the integer x * Scale.  Scale is a multiple of
\* every denominator that arises within the bounds (list lengths and
\* minimum-experience years up to 8, the decimal weights), so the arithmetic
\* below is exact.
Scale == 2 * 2 * 2 * 3 * 5 * 7 * 1000

Fx(k) == k * Scale

\* n / d
FxDiv(n, d) == (n * Scale) \div d

\* x * (num / den), for the decimal literals num / den
FxTimes(x, num, den) == (x * num) \div den

Min(a, b) == IF a <= b THEN a ELSE b

Max(a, b) == IF a >= b THEN a ELSE b

\* round(x, 1) for x >= 0: the nearest tenth, ties to even
Round1(x) ==
    LET u == Scale \div 10
        q == x \div u
        r == x % u
    IN IF 2 * r < u THEN q * u
       ELSE IF 2 * r > u THEN (q + 1) * u
       ELSE IF q % 2 = 0 THEN q * u ELSE (q + 1) * u

\* ------------------------------------------------------- sequence helpers
SetMax(S) == IF S = {} THEN 0 ELSE CHOOSE y \in S : \A z \in S : y >= z

Range(s) == {s[i] : i \in 1..Len(s)}

SeqMax(s) == SetMax(Range(s))

Take(s, k) == IF Len(s) <= k THEN s ELSE SubSeq(s, 1, k)

\* ---------------------------------------------------------------- skills
\* skill.replace(' ', '') and skill.replace('.', '') on the modelled skills
NoSpace(skill) == IF skill = "machine learning" THEN "machinelearning" ELSE skill

NoDot(skill) == IF skill = "node.js" THEN "nodejs" ELSE skill

skill_variations(skill) ==
    CASE skill = "javascript" -> {"js", "ecmascript", "es6", "es2015"}
      [] skill = "typescript" -> {"ts"}
      [] skill = "react" -> {"reactjs", "react.js"}
      [] skill = "node.js" -> {"nodejs", "node"}
      [] skill = "css" -> {"css3", "cascading style sheets"}
      [] skill = "html" -> {"html5", "hypertext markup"}
      [] skill = "python" -> {"py"}
      [] skill = "machine learning" -> {"ml", "artificial intelligence", "ai"}
      [] skill = "sql" -> {"mysql", "postgresql", "sqlite", "database"}
      [] OTHER -> {}

\* resume.tokens: the patterns that occur as substrings of the lower-cased text
_skill_mentioned(skill, resume) ==
    LET skill_patterns == {skill, NoSpace(skill), NoDot(skill)} \cup skill_variations(skill)
    IN \E pattern \in skill_patterns : pattern \in resume.tokens

FoundIn(skills, resume) ==
    LET Mentioned(skill) == _skill_mentioned(skill, resume)
    IN SelectSeq(skills, Mentioned)

NotIn(skills, found) ==
    LET Missing(skill) == skill \notin Range(found)
    IN SelectSeq(skills, Missing)

\* the skills score with the required and the preferred part weighted alike
_analyze_skills_even_weights(resume, job_req) ==
    LET required_skills == job_req.required_skills
        preferred_skills == job_req.preferred_skills
        found_required == FoundIn(required_skills, resume)
        found_preferred == FoundIn(preferred_skills, resume)
        missing_required == NotIn(required_skills, found_required)
        required_score == IF Len(required_skills) > 0
                          THEN FxDiv(Len(found_required), Len(required_skills)) * 100
                          ELSE Fx(100)
        preferred_score == IF Len(preferred_skills) > 0
                           THEN FxDiv(Len(found_preferred), Len(preferred_skills)) * 100
                           ELSE Fx(0)
        skills_score == FxTimes(required_score, 5, 10) + FxTimes(preferred_score, 5, 10)
    IN [score |-> skills_score,
        found |-> found_required \o found_preferred,
        missing |-> missing_required,
        required_found |-> Len(found_required),
        required_total |-> Len(required_skills),
        preferred_found |-> Len(found_preferred)]

_analyze_skills(resume, job_req) ==
    LET required_skills == job_req.required_skills
        preferred_skills == job_req.preferred_skills
        found_required == FoundIn(required_skills, resume)
        found_preferred == FoundIn(preferred_skills, resume)
        missing_required == NotIn(required_skills, found_required)
        required_score == IF Len(required_skills) > 0
                          THEN FxDiv(Len(found_required), Len(required_skills)) * 100
                          ELSE Fx(100)
        preferred_score == IF Len(preferred_skills) > 0
                           THEN FxDiv(Len(found_preferred), Len(preferred_skills)) * 100
                           ELSE Fx(0)
        skills_score == FxTimes(required_score, 8, 10) + FxTimes(preferred_score, 2, 10)
    IN [score |-> skills_score,
        found |-> found_required \o found_preferred,
        missing |-> missing_required,
        required_found |-> Len(found_required),
        required_total |-> Len(required_skills),
        preferred_found |-> Len(found_preferred)]

\* ------------------------------------------------------------ experience
\* resume.explicit: the integers matched by the five experience patterns
_extract_explicit_experience(resume) == SeqMax(resume.explicit)

PairLeq(p, q) == p[1] < q[1] \/ (p[1] = q[1] /\ p[2] <= q[2])

RECURSIVE InsertSorted(_, _)
InsertSorted(p, s) ==
    IF s = <<>> THEN <<p>>
    ELSE IF PairLeq(p, Head(s)) THEN <<p>> \o s
    ELSE <<Head(s)>> \o InsertSorted(p, Tail(s))

RECURSIVE SortPeriods(_)
SortPeriods(s) == IF s = <<>> THEN <<>> ELSE InsertSorted(Head(s), SortPeriods(Tail(s)))

RECURSIVE MergePeriods(_, _)
MergePeriods(s, merged) ==
    IF s = <<>> THEN merged
    ELSE LET p == Head(s)
             k == Len(merged)
         IN IF k = 0 \/ p[1] > merged[k][2]
            THEN MergePeriods(Tail(s), Append(merged, p))
            ELSE MergePeriods(Tail(s),
                     [merged EXCEPT ![k] = <<merged[k][1],
                                             IF merged[k][2] >= p[2] THEN merged[k][2] ELSE p[2]>>])

RECURSIVE PeriodsTotal(_)
PeriodsTotal(s) == IF s = <<>> THEN 0 ELSE (Head(s)[2] - Head(s)[1]) + PeriodsTotal(Tail(s))

\* the date-range total that sums the sorted ranges without merging them
_calculate_experience_from_dates_unmerged(resume) ==
    IF resume.periods = <<>> THEN 0
    ELSE LET total_years == PeriodsTotal(SortPeriods(resume.periods))
         IN IF total_years > 0 THEN total_years ELSE 0

\* resume.periods: the (start_year, end_year) pairs of the simple year-range
\* matches, "present"/"current" already replaced by the current year
_calculate_experience_from_dates(resume) ==
    IF resume.periods = <<>> THEN 0
    ELSE LET total_years == PeriodsTotal(MergePeriods(SortPeriods(resume.periods), <<>>))
         IN IF total_years > 0 THEN total_years ELSE 0

seniority_indicators(indicator) ==
    CASE indicator = "senior" -> 5
      [] indicator = "lead" -> 6
      [] indicator = "principal" -> 8
      [] indicator = "staff" -> 7
      [] indicator = "architect" -> 8
      [] indicator = "manager" -> 6
      [] indicator = "director" -> 10
      [] indicator = "team lead" -> 5
      [] indicator = "tech lead" -> 6
      [] indicator = "junior" -> 1
      [] indicator = "intern" -> 0
      [] indicator = "entry" -> 0
      [] indicator = "graduate" -> 0
      [] OTHER -> 0

\* resume.seniority: the indicators that occur in the text
_estimate_from_seniority_indicators(resume) ==
    SetMax({seniority_indicators(i) : i \in resume.seniority})

\* the estimate that takes the largest of the three strategies
_analyze_experience_largest(resume, job_req) ==
    LET y1 == _extract_explicit_experience(resume)
        min_required == job_req.min_experience_years
    IN CHOOSE analysis \in
        {[years |-> experience_years,
          level |-> IF experience_years >= 7 THEN "Senior"
                    ELSE IF experience_years >= 3 THEN "Mid-level"
                    ELSE IF experience_years >= 1 THEN "Junior"
                    ELSE "Entry-level",
          score |-> IF min_required > 0
                    THEN Min(FxDiv(experience_years, min_required) * 100, Fx(100))
                    ELSE Fx(100),
          meets_requirement |-> experience_years >= min_required] :
            experience_years \in
                {Max(Max(y1, _calculate_experience_from_dates(resume)),
                     _estimate_from_seniority_indicators(resume))}} : TRUE

_analyze_experience(resume, job_req) ==
    LET y1 == _extract_explicit_experience(resume)
        y2 == IF y1 = 0 THEN _calculate_experience_from_dates(resume) ELSE y1
        min_required == job_req.min_experience_years
    IN CHOOSE analysis \in
        {[years |-> experience_years,
          level |-> IF experience_years >= 7 THEN "Senior"
                    ELSE IF experience_years >= 3 THEN "Mid-level"
                    ELSE IF experience_years >= 1 THEN "Junior"
                    ELSE "Entry-level",
          score |-> IF min_required > 0
                    THEN Min(FxDiv(experience_years, min_required) * 100, Fx(100))
                    ELSE Fx(100),
          meets_requirement |-> experience_years >= min_required] :
            experience_years \in
                {IF y2 = 0 THEN _estimate_from_seniority_indicators(resume) ELSE y2}} : TRUE

\* --------------------------------------------------------------- quality
_analyze_resume_quality(resume) ==
    LET word_count == resume.word_count
        length_score == IF 200 <= word_count /\ word_count <= 2000 THEN 20 ELSE 0
        length_ind == IF 200 <= word_count /\ word_count <= 2000 THEN <<"Appropriate length">>
                      ELSE IF word_count < 200 THEN <<"Too brief">>
                      ELSE <<"Too lengthy">>
        sections_found == resume.sections
        professional_count == resume.professional
        technical_count == resume.technical
        quality_score == length_score + Min(sections_found * 10, 30)
                         + Min(professional_count * 5, 25) + Min(technical_count * 3, 25)
        indicators == length_ind
                      \o (IF sections_found >= 4 THEN <<"Well-structured">> ELSE <<>>)
                      \o (IF professional_count >= 3 THEN <<"Professional language">> ELSE <<>>)
                      \o (IF technical_count >= 4 THEN <<"Technical depth">> ELSE <<>>)
    IN [score |-> Min(quality_score, 100),
        indicators |-> indicators,
        word_count |-> word_count]

\* --------------------------------------------------------------- scoring
\* the overall score with the weights 0.5, 0.4 and 0.1
_calculate_overall_score_reweighted(skills_analysis, experience_analysis, quality_analysis) ==
    LET skills_score == skills_analysis.score
        experience_score == experience_analysis.score
        quality_score == Fx(quality_analysis.score)
        overall_score == FxTimes(skills_score, 5, 10) + FxTimes(experience_score, 4, 10)
                         + FxTimes(quality_score, 1, 10)
    IN Min(overall_score, Fx(100))

_calculate_overall_score(skills_analysis, experience_analysis, quality_analysis) ==
    LET skills_score == skills_analysis.score
        experience_score == experience_analysis.score
        quality_score == Fx(quality_analysis.score)
        overall_score == FxTimes(skills_score, 6, 10) + FxTimes(experience_score, 3, 10)
                         + FxTimes(quality_score, 1, 10)
    IN Min(overall_score, Fx(100))

_generate_reasoning(score, skills_analysis, experience_analysis, job_req) ==
    LET tier == IF score >= Fx(80) THEN "Excellent candidate"
                ELSE IF score >= Fx(70) THEN "Strong candidate"
                ELSE IF score >= Fx(50) THEN "Potential candidate"
                ELSE "Below requirements"
        skills_found == skills_analysis.required_found
        skills_total == skills_analysis.required_total
        skills_part == IF skills_found = skills_total THEN <<"Has all required skills", skills_total>>
                       ELSE IF skills_found > 0 THEN <<"Has required skills", skills_found, skills_total>>
                       ELSE <<"Missing most required skills">>
        exp_years == experience_analysis.years
        min_required == job_req.min_experience_years
        exp_part == IF exp_years >= min_required + 2
                    THEN <<"Exceeds experience requirement", exp_years, min_required>>
                    ELSE IF exp_years >= min_required
                    THEN <<"Meets experience requirement", exp_years>>
                    ELSE <<"Below experience requirement", exp_years, min_required>>
    IN <<(<<tier, Round1(score)>>), skills_part, exp_part>>

\* the strengths without the cap of five
_identify_strengths_uncapped(skills_analysis, experience_analysis, quality_analysis) ==
    LET exp_level == experience_analysis.level
        quality_indicators == Range(quality_analysis.indicators)
        strengths ==
            (IF 10 * skills_analysis.required_found >= 8 * skills_analysis.required_total
             THEN <<(<<"Strong technical skills match">>)>> ELSE <<>>)
         \o (IF skills_analysis.preferred_found > 0
             THEN <<(<<"Has preferred skills">>)>> ELSE <<>>)
         \o (IF exp_level \in {"Senior", "Mid-level"}
             THEN <<(<<"experience level", exp_level>>)>> ELSE <<>>)
         \o (IF "Well-structured" \in quality_indicators
             THEN <<(<<"Well-organized resume">>)>> ELSE <<>>)
         \o (IF "Professional language" \in quality_indicators
             THEN <<(<<"Professional presentation">>)>> ELSE <<>>)
         \o (IF "Technical depth" \in quality_indicators
             THEN <<(<<"Demonstrates technical depth">>)>> ELSE <<>>)
    IN strengths

_identify_strengths(skills_analysis, experience_analysis, quality_analysis) ==
    LET exp_level == experience_analysis.level
        quality_indicators == Range(quality_analysis.indicators)
        strengths ==
            (IF 10 * skills_analysis.required_found >= 8 * skills_analysis.required_total
             THEN <<(<<"Strong technical skills match">>)>> ELSE <<>>)
         \o (IF skills_analysis.preferred_found > 0
             THEN <<(<<"Has preferred skills">>)>> ELSE <<>>)
         \o (IF exp_level \in {"Senior", "Mid-level"}
             THEN <<(<<"experience level", exp_level>>)>> ELSE <<>>)
         \o (IF "Well-structured" \in quality_indicators
             THEN <<(<<"Well-organized resume">>)>> ELSE <<>>)
         \o (IF "Professional language" \in quality_indicators
             THEN <<(<<"Professional presentation">>)>> ELSE <<>>)
         \o (IF "Technical depth" \in quality_indicators
             THEN <<(<<"Demonstrates technical depth">>)>> ELSE <<>>)
    IN Take(strengths, 5)

\* the concerns capped by keeping the last three
_identify_concerns_keep_last(skills_analysis, experience_analysis, quality_analysis, job_req) ==
    LET missing_skills == skills_analysis.missing
        word_count == quality_analysis.word_count
        concerns ==
            (IF missing_skills # <<>>
             THEN IF Len(missing_skills) = 1
                  THEN <<(<<"Missing skill", missing_skills[1]>>)>>
                  ELSE <<(<<"Missing required skills", Len(missing_skills)>>)>>
             ELSE <<>>)
         \o (IF ~experience_analysis.meets_requirement
             THEN <<(<<"Only years experience", experience_analysis.years,
                       job_req.min_experience_years>>)>>
             ELSE <<>>)
         \o (IF experience_analysis.level = "Entry-level" /\ job_req.min_experience_years > 1
             THEN <<(<<"Entry-level for mid/senior role">>)>> ELSE <<>>)
         \o (IF word_count < 200 THEN <<(<<"Resume lacks detail">>)>>
             ELSE IF word_count > 2000 THEN <<(<<"Resume too lengthy">>)>>
             ELSE <<>>)
         \o (IF quality_analysis.score < 50
             THEN <<(<<"Poor resume quality">>)>> ELSE <<>>)
    IN IF Len(concerns) <= 3 THEN concerns
       ELSE SubSeq(concerns, Len(concerns) - 2, Len(concerns))

_identify_concerns(skills_analysis, experience_analysis, quality_analysis, job_req) ==
    LET missing_skills == skills_analysis.missing
        word_count == quality_analysis.word_count
        concerns ==
            (IF missing_skills # <<>>
             THEN IF Len(missing_skills) = 1
                  THEN <<(<<"Missing skill", missing_skills[1]>>)>>
                  ELSE <<(<<"Missing required skills", Len(missing_skills)>>)>>
             ELSE <<>>)
         \o (IF ~experience_analysis.meets_requirement
             THEN <<(<<"Only years experience", experience_analysis.years,
                       job_req.min_experience_years>>)>>
             ELSE <<>>)
         \o (IF experience_analysis.level = "Entry-level" /\ job_req.min_experience_years > 1
             THEN <<(<<"Entry-level for mid/senior role">>)>> ELSE <<>>)
         \o (IF word_count < 200 THEN <<(<<"Resume lacks detail">>)>>
             ELSE IF word_count > 2000 THEN <<(<<"Resume too lengthy">>)>>
             ELSE <<>>)
         \o (IF quality_analysis.score < 50
             THEN <<(<<"Poor resume quality">>)>> ELSE <<>>)
    IN Take(concerns, 3)

_calculate_confidence(score, skills_analysis, experience_analysis) ==
    LET c0 == FxDiv(7, 10)
        c1 == IF score >= Fx(85) \/ score <= Fx(30) THEN c0 + FxDiv(2, 10)
              ELSE IF score >= Fx(75) \/ score <= Fx(40) THEN c0 + FxDiv(1, 10)
              ELSE c0
        c2 == IF skills_analysis.required_total > 0 THEN c1 + FxDiv(5, 100) ELSE c1
        c3 == IF experience_analysis.years > 0 THEN c2 + FxDiv(5, 100) ELSE c2
    IN Min(c3, FxDiv(95, 100))

\* The result of a call that may raise: [raised |-> TRUE, error |-> e] or
\* [raised |-> FALSE, value |-> v].
Raise(e) == [raised |-> TRUE, error |-> e]

Return(v) == [raised |-> FALSE, value |-> v]

\* the scoring that sends the scores just under the threshold to manual review
_rule_based_analysis_review_band(candidate, job_req, score_threshold) ==
    IF candidate.resume.fault # "none" THEN Raise(candidate.resume.fault)
    ELSE CHOOSE result \in
        {Return([candidate |-> candidate,
                 score |-> Round1(overall_score),
                 skills_found |-> skills_analysis.found,
                 skills_missing |-> skills_analysis.missing,
                 experience_years |-> experience_analysis.years,
                 experience_level |-> experience_analysis.level,
                 strengths |-> _identify_strengths(skills_analysis, experience_analysis,
                                                   quality_analysis),
                 concerns |-> _identify_concerns(skills_analysis, experience_analysis,
                                                 quality_analysis, job_req),
                 action |-> IF overall_score >= Fx(score_threshold) THEN "accept"
                            ELSE IF overall_score >= Fx(score_threshold - 10)
                            THEN "manual_review" ELSE "reject",
                 reasoning |-> _generate_reasoning(overall_score, skills_analysis,
                                                   experience_analysis, job_req),
                 confidence |-> _calculate_confidence(overall_score, skills_analysis,
                                                      experience_analysis)]) :
            <<skills_analysis, experience_analysis, quality_analysis, overall_score>> \in
                {<<s, e, q, _calculate_overall_score(s, e, q)>> :
                    s \in {_analyze_skills(candidate.resume, job_req)},
                    e \in {_analyze_experience(candidate.resume, job_req)},
                    q \in {_analyze_resume_quality(candidate.resume)}}} : TRUE

\* candidate.resume.fault names the analyzer that raises on this resume
\* ("none" when every analyzer returns).
_rule_based_analysis(candidate, job_req, score_threshold) ==
    IF candidate.resume.fault # "none" THEN Raise(candidate.resume.fault)
    ELSE CHOOSE result \in
        {Return([candidate |-> candidate,
                 score |-> Round1(overall_score),
                 skills_found |-> skills_analysis.found,
                 skills_missing |-> skills_analysis.missing,
                 experience_years |-> experience_analysis.years,
                 experience_level |-> experience_analysis.level,
                 strengths |-> _identify_strengths(skills_analysis, experience_analysis,
                                                   quality_analysis),
                 concerns |-> _identify_concerns(skills_analysis, experience_analysis,
                                                 quality_analysis, job_req),
                 action |-> IF overall_score >= Fx(score_threshold)
                            THEN "accept" ELSE "reject",
                 reasoning |-> _generate_reasoning(overall_score, skills_analysis,
                                                   experience_analysis, job_req),
                 confidence |-> _calculate_confidence(overall_score, skills_analysis,
                                                      experience_analysis)]) :
            <<skills_analysis, experience_analysis, quality_analysis, overall_score>> \in
                {<<s, e, q, _calculate_overall_score(s, e, q)>> :
                    s \in {_analyze_skills(candidate.resume, job_req)},
                    e \in {_analyze_experience(candidate.resume, job_req)},
                    q \in {_analyze_resume_quality(candidate.resume)}}} : TRUE

\* the error result defaulting to a rejection
_create_error_result_reject(candidate, error_msg) ==
    [candidate |-> candidate,
     score |-> Fx(0),
     skills_found |-> <<>>,
     skills_missing |-> <<>>,
     experience_years |-> 0,
     experience_level |-> "Unknown",
     strengths |-> <<>>,
     concerns |-> <<(<<"Analysis error", error_msg>>)>>,
     action |-> "reject",
     reasoning |-> <<(<<"Could not analyze resume automatically", error_msg>>)>>,
     confidence |-> Fx(0)]

_create_error_result(candidate, error_msg) ==
    [candidate |-> candidate,
     score |-> Fx(0),
     skills_found |-> <<>>,
     skills_missing |-> <<>>,
     experience_years |-> 0,
     experience_level |-> "Unknown",
     strengths |-> <<>>,
     concerns |-> <<(<<"Analysis error", error_msg>>)>>,
     action |-> "manual_review",
     reasoning |-> <<(<<"Could not analyze resume automatically", error_msg>>)>>,
     confidence |-> Fx(0)]

\* ai_text: what the generated text contains, as the set of indicator kinds
\* ("positive", "negative") found in it
_parse_ai_response(ai_text) ==
    LET c0 == FxDiv(7, 10)
        c1 == IF "positive" \in ai_text THEN c0 + FxDiv(1, 10) ELSE c0
        c2 == IF "negative" \in ai_text THEN c1 - FxDiv(1, 10) ELSE c1
    IN [ai_strengths |-> <<>>,
        ai_concerns |-> <<>>,
        ai_confidence |-> Max(FxDiv(3, 10), Min(FxDiv(9, 10), c2))]

\* the confidence adjusted by adding the model's confidence instead of replacing it
_combine_analyses_additive(rule_result, ai_insights) ==
    [rule_result EXCEPT !.confidence = @ + ai_insights.ai_confidence,
                        !.strengths = @ \o ai_insights.ai_strengths,
                        !.concerns = @ \o ai_insights.ai_concerns]

_combine_analyses(rule_result, ai_insights) ==
    [rule_result EXCEPT !.confidence = ai_insights.ai_confidence,
                        !.strengths = @ \o ai_insights.ai_strengths,
                        !.concerns = @ \o ai_insights.ai_concerns]

\* the model-enhanced path that lets the exception of the generative call escape
_ai_enhanced_analysis_no_fallback(candidate, job_req, score_threshold) ==
    IF "raises" \in candidate.ai THEN Raise("generation failed")
    ELSE CHOOSE result \in
        {IF rule_result.raised
         THEN rule_result
         ELSE Return(_combine_analyses(rule_result.value, _parse_ai_response(candidate.ai))) :
            rule_result \in {_rule_based_analysis(candidate, job_req, score_threshold)}} : TRUE

\* candidate.ai: the outcome of the generative call for this candidate: the
\* set of indicator kinds in the generated text, or {"raises"}.  The except
\* branch calls _rule_based_analysis again; it is a function of its arguments,
\* so that call gives rule_result.
_ai_enhanced_analysis(candidate, job_req, score_threshold) ==
    CHOOSE result \in
        {IF "raises" \in candidate.ai \/ rule_result.raised
         THEN rule_result
         ELSE Return(_combine_analyses(rule_result.value, _parse_ai_response(candidate.ai))) :
            rule_result \in {_rule_based_analysis(candidate, job_req, score_threshold)}} : TRUE

\* analyzer: TRUE when the generative model was loaded at construction
analyze_resume(candidate, job_req, score_threshold, analyzer) ==
    CHOOSE decision \in
        {IF result.raised THEN _create_error_result(candidate, result.error)
         ELSE result.value :
            result \in {IF analyzer
                        THEN _ai_enhanced_analysis(candidate, job_req, score_threshold)
                        ELSE _rule_based_analysis(candidate, job_req, score_threshold)}} : TRUE

\* ---------------------------------------------------------------- loader
\* file.kind: "resume" (text, name and email extracted), "short_text" (under
\* 50 characters), "parse_error", "download_error", "no_name", "no_email",
\* or "other" (not a .pdf/.docx/.doc file)
\* the file processing without the minimum on the extracted text
_process_resume_file_no_minimum(file_info) ==
    IF file_info.kind \in {"resume", "short_text"}
    THEN [found |-> TRUE,
          candidate |-> [name |-> file_info.name, email |-> file_info.name,
                         file_name |-> file_info.name,
                         resume |-> file_info.resume, ai |-> file_info.ai]]
    ELSE [found |-> FALSE]

_process_resume_file(file_info) ==
    IF file_info.kind = "resume"
    THEN [found |-> TRUE,
          candidate |-> [name |-> file_info.name, email |-> file_info.name,
                         file_name |-> file_info.name,
                         resume |-> file_info.resume, ai |-> file_info.ai]]
    ELSE [found |-> FALSE]

\* the loop over resume_files that returns the candidates last file first
ProcessFiles_newest_first(resume_files) ==
    LET Extracted(file_info) == _process_resume_file(file_info).found
        Failed(file_info) == ~_process_resume_file(file_info).found
        ok == SelectSeq(resume_files, Extracted)
        bad == SelectSeq(resume_files, Failed)
    IN <<[i \in 1..Len(ok) |-> _process_resume_file(ok[Len(ok) + 1 - i]).candidate],
         [i \in 1..Len(bad) |-> <<"Could not extract candidate info", bad[i].name>>]>>

\* the loop over resume_files: the candidates and the errors, each in file order
ProcessFiles(resume_files) ==
    LET Extracted(file_info) == _process_resume_file(file_info).found
        Failed(file_info) == ~_process_resume_file(file_info).found
        ok == SelectSeq(resume_files, Extracted)
        bad == SelectSeq(resume_files, Failed)
    IN <<[i \in 1..Len(ok) |-> _process_resume_file(ok[i]).candidate],
         [i \in 1..Len(bad) |-> <<"Could not extract candidate info", bad[i].name>>]>>

ResumeFiles(files) ==
    LET IsResumeFile(f) == f.kind # "other"
    IN SelectSeq(files, IsResumeFile)

\* the load that returns the candidates and keeps no per-file error message
load_resumes_from_job_role_silent(src) ==
    IF src.status = "not_found" THEN Return(<<(<<>>), (<<(<<"Folder not found">>)>>)>>)
    ELSE IF src.status = "api_error" THEN Return(<<(<<>>), (<<(<<"GitHub API error">>)>>)>>)
    ELSE IF src.status = "bad_payload" THEN Raise("bad payload")
    ELSE LET resume_files == ResumeFiles(src.files)
         IN IF resume_files = <<>>
            THEN Return(<<(<<>>), (<<(<<"No resume files found">>)>>)>>)
            ELSE Return(<<ProcessFiles(resume_files)[1], (<<>>)>>)

\* src.status: "ok", "not_found" (404), "api_error" (a RequestException) or
\* "bad_payload" (the listing is not a list of entries)
load_resumes_from_job_role(src) ==
    IF src.status = "not_found" THEN Return(<<(<<>>), (<<(<<"Folder not found">>)>>)>>)
    ELSE IF src.status = "api_error" THEN Return(<<(<<>>), (<<(<<"GitHub API error">>)>>)>>)
    ELSE IF src.status = "bad_payload" THEN Raise("bad payload")
    ELSE LET resume_files == ResumeFiles(src.files)
         IN IF resume_files = <<>>
            THEN Return(<<(<<>>), (<<(<<"No resume files found">>)>>)>>)
            ELSE Return(ProcessFiles(resume_files))

\* -------------------------------------------------------------- notifier
\* outcomes[i]: what the SMTP send for the i-th result returns when it is made
\* the single email that asks the SMTP collaborator in simulation mode too
_send_single_email_always_smtp(candidate, email_type, enabled, delivered) ==
    [candidate_name |-> candidate.name,
     candidate_email |-> candidate.email,
     email_type |-> email_type,
     success |-> delivered]

_send_single_email(candidate, email_type, enabled, delivered) ==
    [candidate_name |-> candidate.name,
     candidate_email |-> candidate.email,
     email_type |-> email_type,
     success |-> IF enabled THEN delivered ELSE TRUE]

\* the choice of template that also mails the manual review cases
EmailType_mail_manual_review(action) ==
    CASE action = "accept" -> "acceptance"
      [] action = "reject" -> "rejection"
      [] action = "request_info" -> "info_request"
      [] OTHER -> "info_request"

EmailType(action) ==
    CASE action = "accept" -> "acceptance"
      [] action = "reject" -> "rejection"
      [] action = "request_info" -> "info_request"
      [] OTHER -> "skip"

\* the to_email of each call of _send_smtp_email: one per email made while the
\* sender is enabled, none in simulation mode
SmtpCalls(results, enabled) ==
    LET Mailed(r) == EmailType(r.action) # "skip"
        mailed == SelectSeq(results, Mailed)
    IN IF enabled THEN [k \in 1..Len(mailed) |-> mailed[k].candidate.email] ELSE <<>>

\* the loop leaving at the first delivery that fails
SendLoop_halt_on_failure(results, enabled, outcomes) ==
    [i \in 1..Len(results) |->
        LET email_type == EmailType(results[i].action)
            halted == \E j \in 1..(i - 1) :
                         EmailType(results[j].action) # "skip" /\ enabled /\ ~outcomes[j]
        IN IF email_type = "skip" \/ halted THEN [email_type |-> "skip", success |-> FALSE]
           ELSE _send_single_email(results[i].candidate, email_type, enabled, outcomes[i])]

\* the loop of send_screening_emails: attempts[i] is the email made for the
\* i-th result, or "skip" when the loop continues past it
SendLoop(results, enabled, outcomes) ==
    [i \in 1..Len(results) |->
        LET email_type == EmailType(results[i].action)
        IN IF email_type = "skip" THEN [email_type |-> "skip", success |-> FALSE]
           ELSE _send_single_email(results[i].candidate, email_type, enabled, outcomes[i])]

send_screening_emails(results, enabled, outcomes) ==
    LET attempts == SendLoop(results, enabled, outcomes)
        Made(a) == a.email_type # "skip"
        Succeeded == {i \in 1..Len(attempts) : Made(attempts[i]) /\ attempts[i].success}
        Failed == {i \in 1..Len(attempts) : Made(attempts[i]) /\ ~attempts[i].success}
    IN [results |-> SelectSeq(attempts, Made),
        statistics |-> [total |-> Len(results),
                        sent |-> IF enabled THEN Cardinality(Succeeded) ELSE 0,
                        failed |-> Cardinality(Failed),
                        simulated |-> IF enabled THEN 0 ELSE Cardinality(Succeeded),
                        by_type |-> [t \in {"acceptance", "rejection", "info_request"} |->
                                        Cardinality({i \in Succeeded : attempts[i].email_type = t})]],
        mode |-> IF enabled THEN "real" ELSE "simulation"]

\* -------------------------------------------------------------- workflow
VARIABLES config, job_requirements, source, pc, trace, candidates, analysis_results,
          email_results, errors, human_interventions, current_step, step_results,
          session_summary, result, smtp_log, e_in, e_out

vars == <<config, job_requirements, source, pc, trace, candidates, analysis_results,
          email_results, errors, human_interventions, current_step, step_results,
          session_summary, result, smtp_log, e_in, e_out>>

wf_state == <<candidates, analysis_results, email_results, errors, human_interventions,
              current_step, step_results, session_summary>>

\* the graph with the edge out of analyze_candidates bypassing send_emails
Edge_skip_emails(node) ==
    CASE node = "initialize_session" -> "load_resumes"
      [] node = "load_resumes" -> "analyze_candidates"
      [] node = "analyze_candidates" -> "generate_summary"
      [] node = "send_emails" -> "generate_summary"
      [] node = "generate_summary" -> "END"
      [] node = "handle_errors" -> "END"

\* the edges of the compiled graph
Edge(node) ==
    CASE node = "initialize_session" -> "load_resumes"
      [] node = "load_resumes" -> "analyze_candidates"
      [] node = "analyze_candidates" -> "send_emails"
      [] node = "send_emails" -> "generate_summary"
      [] node = "generate_summary" -> "END"
      [] node = "handle_errors" -> "END"

EntryPoint == "initialize_session"

Enter(node) ==
    /\ pc = node
    /\ pc' = Edge(node)
    /\ trace' = Append(trace, node)

\* the try block when analyze_resume lets the analyzer's exception escape
AnalyzeOne_reraise(candidate_data, job_req, score_threshold, analyzer) ==
    IF candidate_data.resume.fault # "none" THEN Raise(candidate_data.resume.fault)
    ELSE Return(analyze_resume(candidate_data, job_req, score_threshold, analyzer))

\* the body of the per-candidate try block of _analyze_candidates_node
AnalyzeOne(candidate_data, job_req, score_threshold, analyzer) ==
    Return(analyze_resume(candidate_data, job_req, score_threshold, analyzer))

\* the loop of _analyze_candidates_node over the loaded candidates
AnalyzeLoop(candidates_data, job_req, score_threshold, analyzer) ==
    LET Raised(t) == t.r.raised
        Returned(t) == ~t.r.raised
    IN CHOOSE acc \in
        {[analysis_results |-> [i \in 1..Len(done) |-> done[i].r.value],
          errors |-> [i \in 1..Len(failed) |-> <<"Analysis failed", failed[i].name>>],
          human_interventions |-> [i \in 1..Len(failed) |->
                                      [candidate_name |-> failed[i].name,
                                       issue |-> "Analysis failed",
                                       error |-> failed[i].r.error,
                                       action_needed |-> "Manual review required"]],
          accepted_count |-> Cardinality({i \in 1..Len(done) : done[i].r.value.action = "accept"}),
          rejected_count |-> Cardinality({i \in 1..Len(done) : done[i].r.value.action # "accept"})] :
            <<failed, done>> \in
                {<<SelectSeq(tried, Raised), SelectSeq(tried, Returned)>> :
                    tried \in {[i \in 1..Len(candidates_data) |->
                                  [name |-> candidates_data[i].name,
                                   r |-> AnalyzeOne(candidates_data[i], job_req,
                                                    score_threshold, analyzer)]]}}} : TRUE

CountAction(results, action) ==
    Cardinality({i \in 1..Len(results) : results[i].action = action})

RECURSIVE SumScores(_)
SumScores(results) ==
    IF results = <<>> THEN 0 ELSE Head(results).score + SumScores(Tail(results))

ScoreBucket(score) ==
    IF score >= Fx(90) THEN "90-100%"
    ELSE IF score >= Fx(80) THEN "80-89%"
    ELSE IF score >= Fx(70) THEN "70-79%"
    ELSE IF score >= Fx(60) THEN "60-69%"
    ELSE IF score >= Fx(50) THEN "50-59%"
    ELSE "Below 50%"

_calculate_score_distribution(results) ==
    [b \in {"90-100%", "80-89%", "70-79%", "60-69%", "50-59%", "Below 50%"} |->
        Cardinality({i \in 1..Len(results) : ScoreBucket(results[i].score) = b})]

\* the summary built by _generate_summary_node (the clock readings left out)
SessionSummary(cands, results, emails, errs, interventions) ==
    LET candidates_count == Len(cands)
        accepted == CountAction(results, "accept")
        rejected == CountAction(results, "reject")
        avg_score == IF results # <<>>
                     THEN SumScores(results) \div Len(results)
                     ELSE 0
    IN [produced |-> TRUE,
        session_info |-> [total_candidates |-> candidates_count],
        results |-> [accepted |-> accepted,
                     rejected |-> rejected,
                     acceptance_rate |-> IF candidates_count > 0
                                         THEN FxDiv(accepted, candidates_count) ELSE 0,
                     average_score |-> Round1(avg_score),
                     score_distribution |-> IF results # <<>>
                                            THEN _calculate_score_distribution(results)
                                            ELSE <<>>],
        email_actions |-> emails,
        efficiency_metrics |-> [estimated_manual_time_minutes |-> candidates_count * 15,
                                automation_rate |-> IF interventions = <<>>
                                                    THEN Fx(1) ELSE FxDiv(8, 10)],
        error_summary |-> [total_errors |-> Len(errs),
                           errors |-> errs,
                           human_interventions_needed |-> Len(interventions),
                           interventions |-> interventions],
        detailed_results |-> results]

\* ---------------------------------------------------------------- inputs
SkillPool == <<"react", "javascript", "typescript", "html", "css">>

PreferredPool == <<"node.js", "sql", "python">>

RequiredLists == {SubSeq(SkillPool, 1, k) : k \in 0..MaxRequired}

PreferredLists == {SubSeq(PreferredPool, 1, k) : k \in 0..MaxPreferred}

TokenSets == {{}, {"react"}, {"react", "js"}, {"react", "js", "nodejs"}}

Thresholds == {0, 50, 70, 100}

ExperienceEvidence ==
    {[explicit |-> <<y>>, periods |-> <<>>, seniority |-> {}] : y \in 1..MaxYears}
    \cup {[explicit |-> <<y>>, periods |-> <<(<<2019, 2021>>)>>, seniority |-> {"senior"}] :
             y \in 1..MaxYears}
    \cup {[explicit |-> <<>>, periods |-> <<(<<2020, 2020>>)>>, seniority |-> {"lead"}],
          [explicit |-> <<>>, periods |-> <<>>, seniority |-> {}],
          [explicit |-> <<>>, periods |-> <<(<<2018, 2021>>), (<<2020, 2023>>)>>,
           seniority |-> {"junior"}],
          [explicit |-> <<>>, periods |-> <<>>, seniority |-> {"senior", "staff"}]}

\* word_count, sections, professional, technical: quality 0, 37, 91, 100
QualityEvidence ==
    {[word_count |-> 150, sections |-> 0, professional |-> 0, technical |-> 0],
     [word_count |-> 2500, sections |-> 2, professional |-> 1, technical |-> 4],
     [word_count |-> 500, sections |-> 3, professional |-> 4, technical |-> 7],
     [word_count |-> 500, sections |-> 7, professional |-> 9, technical |-> 9]}

MkResume(tokens, ev, q, fault) ==
    [tokens |-> tokens, explicit |-> ev.explicit, periods |-> ev.periods,
     seniority |-> ev.seniority, word_count |-> q.word_count, sections |-> q.sections,
     professional |-> q.professional, technical |-> q.technical, fault |-> fault]

EngineResumes ==
    {MkResume(t, ev, q, f) : t \in TokenSets, ev \in ExperienceEvidence,
                             q \in QualityEvidence, f \in {"none", "experience"}}

EngineJobs ==
    [required_skills : RequiredLists, preferred_skills : PreferredLists,
     min_experience_years : 0..MaxMinExp]

\* the generative model: not loaded, or loaded with one of the call outcomes
EngineModes ==
    {[analyzer |-> FALSE, ai |-> {}]}
    \cup {[analyzer |-> TRUE, ai |-> a] : a \in {{}, {"positive"}, {"negative"}, {"raises"}}}

\* the resumes of the pipeline runs
StrongResume == [tokens |-> {"react", "js", "nodejs"}, explicit |-> <<>>,
                 periods |-> <<(<<2018, 2021>>), (<<2020, 2026>>)>>, seniority |-> {"senior"},
                 word_count |-> 500, sections |-> 7, professional |-> 9, technical |-> 9,
                 fault |-> "none"]

WeakResume == [tokens |-> {}, explicit |-> <<1>>, periods |-> <<>>, seniority |-> {},
               word_count |-> 150, sections |-> 0, professional |-> 0, technical |-> 0,
               fault |-> "none"]

BorderResume == [tokens |-> {"react", "js"}, explicit |-> <<3>>, periods |-> <<>>,
                 seniority |-> {}, word_count |-> 500, sections |-> 3, professional |-> 4,
                 technical |-> 7, fault |-> "none"]

FaultyResume == [tokens |-> {"react"}, explicit |-> <<2>>, periods |-> <<>>, seniority |-> {},
                 word_count |-> 500, sections |-> 3, professional |-> 4, technical |-> 7,
                 fault |-> "experience"]

FileKinds ==
    {[kind |-> "resume", resume |-> StrongResume, ai |-> {"positive"}],
     [kind |-> "resume", resume |-> WeakResume, ai |-> {"negative"}],
     [kind |-> "resume", resume |-> BorderResume, ai |-> {"raises"}],
     [kind |-> "resume", resume |-> FaultyResume, ai |-> {}],
     [kind |-> "short_text", resume |-> WeakResume, ai |-> {}],
     [kind |-> "parse_error", resume |-> WeakResume, ai |-> {}],
     [kind |-> "other", resume |-> WeakResume, ai |-> {}]}

\* a listing: the files of the folder, named by their position
Listings ==
    UNION {[1..n -> FileKinds] : n \in 0..MaxFiles}

NameFiles(l) ==
    [i \in 1..Len(l) |-> [name |-> i, kind |-> l[i].kind, resume |-> l[i].resume, ai |-> l[i].ai]]

Sources ==
    {[status |-> st, files |-> <<>>] : st \in {"not_found", "api_error", "bad_payload"}}
    \cup {[status |-> "ok", files |-> NameFiles(l)] : l \in Listings}

PipelineJobs ==
    {[required_skills |-> <<"react", "javascript">>, preferred_skills |-> <<"node.js">>,
      min_experience_years |-> 3],
     [required_skills |-> <<"react">>, preferred_skills |-> <<>>,
      min_experience_years |-> 7]}

Configs ==
    [has_keys : BOOLEAN, email_enabled : BOOLEAN, score_threshold : {70}, analyzer : BOOLEAN]

\* ------------------------------------------------------------------ Init
IdleState ==
    /\ candidates = <<>>
    /\ analysis_results = <<>>
    /\ email_results = [mode |-> "unset"]
    /\ errors = <<>>
    /\ human_interventions = <<>>
    /\ current_step = "initializing"
    /\ step_results = [status |-> "none"]
    /\ session_summary = [produced |-> FALSE]
    /\ result = [kind |-> "none"]
    /\ smtp_log = <<>>
    /\ trace = <<>>

Init ==
    /\ config \in Configs
    /\ job_requirements \in PipelineJobs
    /\ source \in Sources
    /\ pc = "construct"
    /\ IdleState
    /\ e_in = [idle |-> TRUE]
    /\ e_out = [done |-> FALSE]

\* ------------------------------------------------------------- the nodes
\* HRScreeningWorkflow(config) and the call of run_screening
Construct ==
    /\ pc = "construct"
    /\ IF config.has_keys
       THEN /\ pc' = EntryPoint
            /\ result' = result
       ELSE /\ pc' = "returned"
            /\ result' = [kind |-> "error", error |-> "Workflow initialization failed"]
    /\ UNCHANGED <<config, job_requirements, source, trace, wf_state, smtp_log, e_in, e_out>>

InitializeSession ==
    /\ Enter("initialize_session")
    /\ current_step' = "initialization"
    /\ errors' = <<>>
    /\ human_interventions' = <<>>
    /\ step_results' = [status |-> "success"]
    /\ UNCHANGED <<config, job_requirements, source, candidates, analysis_results,
                   email_results, session_summary, result, smtp_log, e_in, e_out>>

LoadResumes ==
    /\ Enter("load_resumes")
    /\ current_step' = "loading_resumes"
    /\ LET r == load_resumes_from_job_role(source)
       IN IF r.raised
          THEN /\ errors' = Append(errors, <<"Failed to load resumes", r.error>>)
               /\ step_results' = [status |-> "error"]
               /\ candidates' = candidates
          ELSE IF r.value[1] = <<>> /\ r.value[2] = <<>>
          THEN /\ errors' = Append(errors, <<"No resumes found">>)
               /\ step_results' = [status |-> "error"]
               /\ candidates' = candidates
          ELSE /\ candidates' = r.value[1]
               /\ errors' = errors \o r.value[2]
               /\ step_results' = [status |-> "success",
                                   candidates_loaded |-> Len(r.value[1]),
                                   errors_encountered |-> Len(r.value[2])]
    /\ UNCHANGED <<config, job_requirements, source, analysis_results, email_results,
                   human_interventions, session_summary, result, smtp_log, e_in, e_out>>

AnalyzeCandidates ==
    /\ Enter("analyze_candidates")
    /\ current_step' = "analyzing_candidates"
    /\ IF candidates = <<>>
       THEN /\ errors' = Append(errors, <<"No candidates to analyze">>)
            /\ UNCHANGED <<analysis_results, human_interventions, step_results>>
       ELSE \E acc \in {AnalyzeLoop(candidates, job_requirements, config.score_threshold,
                                    config.analyzer)} :
               /\ analysis_results' = acc.analysis_results
               /\ errors' = errors \o acc.errors
               /\ human_interventions' = human_interventions \o acc.human_interventions
               /\ step_results' = [status |-> "success",
                                   total_analyzed |-> Len(acc.analysis_results),
                                   accepted |-> acc.accepted_count,
                                   rejected |-> acc.rejected_count,
                                   errors |-> Len(errors) + Len(acc.errors)]
    /\ UNCHANGED <<config, job_requirements, source, candidates, email_results,
                   session_summary, result, smtp_log, e_in, e_out>>

SendEmails ==
    /\ Enter("send_emails")
    /\ current_step' = "sending_emails"
    /\ IF analysis_results = <<>>
       THEN /\ email_results' = [sent |-> 0, total |-> 0, mode |-> "none"]
            /\ step_results' = step_results
            /\ smtp_log' = smtp_log
       ELSE \E outcomes \in [1..Len(analysis_results) -> BOOLEAN] :
               LET r == send_screening_emails(analysis_results, config.email_enabled, outcomes)
               IN /\ email_results' = r
                  /\ smtp_log' = smtp_log \o SmtpCalls(analysis_results, config.email_enabled)
                  /\ step_results' = [status |-> "success",
                                      emails_processed |-> r.statistics.total,
                                      emails_sent |-> r.statistics.sent,
                                      email_mode |-> r.mode]
    /\ UNCHANGED <<config, job_requirements, source, candidates, analysis_results, errors,
                   human_interventions, session_summary, result, e_in, e_out>>

\* the summary step that empties the error list once it has counted it
GenerateSummary_clears_errors ==
    /\ Enter("generate_summary")
    /\ current_step' = "generating_summary"
    /\ session_summary' = SessionSummary(candidates, analysis_results, email_results,
                                         errors, human_interventions)
    /\ step_results' = [status |-> "success", summary_generated |-> TRUE]
    /\ errors' = <<>>
    /\ UNCHANGED <<config, job_requirements, source, candidates, analysis_results,
                   email_results, human_interventions, result, smtp_log, e_in, e_out>>

GenerateSummary ==
    /\ Enter("generate_summary")
    /\ current_step' = "generating_summary"
    /\ session_summary' = SessionSummary(candidates, analysis_results, email_results,
                                         errors, human_interventions)
    /\ step_results' = [status |-> "success", summary_generated |-> TRUE]
    /\ UNCHANGED <<config, job_requirements, source, candidates, analysis_results,
                   email_results, errors, human_interventions, result, smtp_log, e_in, e_out>>

\* run_screening that returns the session summary whatever the error list holds
ReturnResult_always_report ==
    /\ pc = "END"
    /\ pc' = "returned"
    /\ result' = [kind |-> "report", report |-> session_summary]
    /\ UNCHANGED <<config, job_requirements, source, trace, wf_state, smtp_log, e_in, e_out>>

\* run_screening after workflow.invoke has returned
ReturnResult ==
    /\ pc = "END"
    /\ pc' = "returned"
    /\ result' = IF errors # <<>>
                 THEN [kind |-> "error", error |-> "Workflow completed with errors",
                       errors |-> errors, partial_results |-> session_summary]
                 ELSE [kind |-> "report", report |-> session_summary]
    /\ UNCHANGED <<config, job_requirements, source, trace, wf_state, smtp_log, e_in, e_out>>

Next ==
    \/ Construct
    \/ InitializeSession
    \/ LoadResumes
    \/ AnalyzeCandidates
    \/ SendEmails
    \/ GenerateSummary
    \/ ReturnResult

Spec == Init /\ [][Next]_vars

\* ------------------------------------------------- the Decision Engine alone
EngineCandidate(r, m) ==
    [name |-> 1, email |-> 1, file_name |-> 1, resume |-> r, ai |-> m.ai]

InitEngine ==
    /\ config = [has_keys |-> TRUE, email_enabled |-> FALSE, score_threshold |-> 70,
                 analyzer |-> FALSE]
    /\ job_requirements = [required_skills |-> <<>>, preferred_skills |-> <<>>,
                           min_experience_years |-> 0]
    /\ source = [status |-> "ok", files |-> <<>>]
    /\ pc = "engine"
    /\ IdleState
    /\ \E r \in EngineResumes, j \in EngineJobs, t \in Thresholds, m \in EngineModes :
          e_in = [candidate |-> EngineCandidate(r, m), job_req |-> j,
                  score_threshold |-> t, analyzer |-> m.analyzer]
    /\ e_out = [done |-> FALSE]

EngineAnalyze ==
    /\ pc = "engine"
    /\ ~e_out.done
    /\ e_out' = [done |-> TRUE,
                 decision |-> analyze_resume(e_in.candidate, e_in.job_req,
                                             e_in.score_threshold, e_in.analyzer)]
    /\ UNCHANGED <<config, job_requirements, source, pc, trace, wf_state, result, smtp_log, e_in>>

NextEngine == EngineAnalyze

SpecEngine == InitEngine /\ [][NextEngine]_vars

\* --------------------------------------- the Decision Engine called again
\* what the sampled generation (do_sample = True) of one call can contain
GenerationOutcomes == {{}, {"positive"}, {"negative"}, {"raises"}}

InitRerun ==
    /\ config = [has_keys |-> TRUE, email_enabled |-> FALSE, score_threshold |-> 70,
                 analyzer |-> FALSE]
    /\ job_requirements = [required_skills |-> <<>>, preferred_skills |-> <<>>,
                           min_experience_years |-> 0]
    /\ source = [status |-> "ok", files |-> <<>>]
    /\ pc = "engine"
    /\ IdleState
    /\ \E r \in EngineResumes, j \in PipelineJobs, m \in EngineModes :
          e_in = [candidate |-> EngineCandidate(r, m), job_req |-> j,
                  score_threshold |-> 70, analyzer |-> m.analyzer]
    /\ e_out = [done |-> FALSE]

\* analyze_resume called a second time on the same candidate and requirements
\* by the same analyzer; with a model loaded the call samples a new text (the
\* text is not part of the Candidate the Decision refers to)
EngineRerun ==
    /\ pc = "engine"
    /\ e_out.done
    /\ "second" \notin DOMAIN e_out
    /\ \E a \in (IF e_in.analyzer THEN GenerationOutcomes ELSE {e_in.candidate.ai}) :
          e_out' = [done |-> TRUE,
                    decision |-> e_out.decision,
                    second |-> [analyze_resume([e_in.candidate EXCEPT !.ai = a],
                                               e_in.job_req, e_in.score_threshold,
                                               e_in.analyzer)
                                   EXCEPT !.candidate = e_in.candidate]]
    /\ UNCHANGED <<config, job_requirements, source, pc, trace, wf_state, result, smtp_log, e_in>>

NextRerun ==
    \/ EngineAnalyze
    \/ EngineRerun

SpecRerun == InitRerun /\ [][NextRerun]_vars

\* ------------------------------------------- the end-to-end scoring scenarios
\* the resumes of the scenarios: every required skill of the pool in the text,
\* or exactly one of them, with or without the preferred skill
ScenarioTokens ==
    {Range(SkillPool) \cup p : p \in {{}, {"nodejs"}}}
    \cup {{SkillPool[k]} \cup p : k \in 1..Len(SkillPool), p \in {{}, {"nodejs"}}}

ScenarioExperience ==
    {[explicit |-> <<y>>, periods |-> <<>>, seniority |-> {}] : y \in {1, 5, 5 + MaxYears}}

ScenarioResumes ==
    {MkResume(t, ev, q, "none") : t \in ScenarioTokens, ev \in ScenarioExperience,
                                  q \in QualityEvidence}

ScenarioJobs ==
    [required_skills : {SkillPool}, preferred_skills : PreferredLists,
     min_experience_years : 0..MaxMinExp]

InitScenario ==
    /\ config = [has_keys |-> TRUE, email_enabled |-> FALSE, score_threshold |-> 70,
                 analyzer |-> FALSE]
    /\ job_requirements = [required_skills |-> <<>>, preferred_skills |-> <<>>,
                           min_experience_years |-> 0]
    /\ source = [status |-> "ok", files |-> <<>>]
    /\ pc = "engine"
    /\ IdleState
    /\ \E r \in ScenarioResumes, j \in ScenarioJobs, m \in EngineModes :
          e_in = [candidate |-> EngineCandidate(r, m), job_req |-> j,
                  score_threshold |-> 70, analyzer |-> m.analyzer]
    /\ e_out = [done |-> FALSE]

SpecScenario == InitScenario /\ [][NextEngine]_vars

\* the date-range arithmetic on its own: the year ranges a resume can hold, in
\* the order of their matches, ranges that end before they start included
FirstYear == 2019

YearRanges == (FirstYear..(FirstYear + MaxSpan)) \X (FirstYear..(FirstYear + MaxSpan))

PeriodLists == UNION {[1..n -> YearRanges] : n \in 0..MaxPeriods}

InitDates ==
    /\ config = [has_keys |-> TRUE, email_enabled |-> FALSE, score_threshold |-> 70,
                 analyzer |-> FALSE]
    /\ job_requirements = [required_skills |-> <<>>, preferred_skills |-> <<>>,
                           min_experience_years |-> 0]
    /\ source = [status |-> "ok", files |-> <<>>]
    /\ pc = "dates"
    /\ IdleState
    /\ \E periods \in PeriodLists : e_in = [periods |-> periods]
    /\ e_out = [done |-> FALSE]

DatesAnalyze ==
    /\ pc = "dates"
    /\ ~e_out.done
    /\ e_out' = [done |-> TRUE, years |-> _calculate_experience_from_dates(e_in)]
    /\ UNCHANGED <<config, job_requirements, source, pc, trace, wf_state, result, smtp_log, e_in>>

NextDates == DatesAnalyze

SpecDates == InitDates /\ [][NextDates]_vars

\* ================================================================ claims
Analyzed == \E i \in 1..Len(trace) : trace[i] = "analyze_candidates"

Notified == \E i \in 1..Len(trace) : trace[i] = "send_emails"

Loaded == \E i \in 1..Len(trace) : trace[i] = "load_resumes"

FailedFiles ==
    {i \in 1..Len(source.files) : source.files[i].kind \notin {"resume", "other"}}

SurvivingFiles ==
    {i \in 1..Len(source.files) : source.files[i].kind = "resume"}

\* C1: in every session report the accept, reject and manual_review Decisions
\* add up to session_info.total_candidates, which counts the Candidates that
\* survived Load; a document that failed extraction is not counted, has no
\* Decision and has an entry in the error list.
C1_DecisionsCoverCandidates ==
    session_summary.produced =>
        LET dr == session_summary.detailed_results
            total == session_summary.session_info.total_candidates
        IN /\ CountAction(dr, "accept") + CountAction(dr, "reject")
                + CountAction(dr, "manual_review") = total
           /\ total = Cardinality(SurvivingFiles)
           /\ \A f \in FailedFiles :
                /\ \A i \in 1..Len(dr) : dr[i].candidate.file_name # f
                /\ \E k \in 1..Len(session_summary.error_summary.errors) :
                      session_summary.error_summary.errors[k]
                          = <<"Could not extract candidate info", f>>

C1_Witness ==
    /\ session_summary.produced
    /\ FailedFiles # {}
    /\ CountAction(session_summary.detailed_results, "manual_review") = 1
    /\ session_summary.session_info.total_candidates = 1

\* C2: in every session report results.accepted + results.rejected +
\* error_summary.human_interventions_needed equals the number of Decisions in
\* detailed_results.
C2_ReportInvariant ==
    session_summary.produced =>
        session_summary.results.accepted + session_summary.results.rejected
            + session_summary.error_summary.human_interventions_needed
        = Len(session_summary.detailed_results)

\* C3: after Notify, email_actions.statistics.total equals the number of
\* Decisions whose action is accept or reject.
C3_EmailTotalCountsAcceptReject ==
    (Notified /\ "statistics" \in DOMAIN email_results) =>
        email_results.statistics.total
        = CountAction(analysis_results, "accept") + CountAction(analysis_results, "reject")

\* C4: for every Decision not produced by the error path, action is accept
\* if and only if the stored score is at least the score threshold.
C4_AcceptIffStoredScoreAtLeastThreshold ==
    (e_out.done /\ e_out.decision.action # "manual_review") =>
        (e_out.decision.action = "accept"
            <=> e_out.decision.score >= Fx(e_in.score_threshold))

\* C5: every Decision produced by analyze_resume (rule-based, model-enhanced
\* or error path) has 0 <= score <= 100 and 0 <= confidence <= 1.
C5_ScoreAndConfidenceInRange ==
    e_out.done =>
        /\ e_out.decision.score >= Fx(0)
        /\ e_out.decision.score <= Fx(100)
        /\ e_out.decision.confidence >= Fx(0)
        /\ e_out.decision.confidence <= Fx(1)

C5_Witness ==
    /\ e_out.done
    /\ e_in.analyzer
    /\ "positive" \in e_in.candidate.ai
    /\ e_out.decision.score = Fx(100)
    /\ e_out.decision.confidence = FxDiv(8, 10)

\* C6: when an analyzer raises on a candidate, that candidate's Decision is
\* manual_review with score 0, confidence 0 and exactly one concern, and every
\* other candidate of the batch, before and after it, still has its Decision
\* with action accept or reject.
C6_AnalyzerFailureDegrades ==
    (Analyzed /\ candidates # <<>>) =>
        /\ Len(analysis_results) = Len(candidates)
        /\ \A i \in 1..Len(candidates) :
              /\ analysis_results[i].candidate = candidates[i]
              /\ IF candidates[i].resume.fault # "none"
                 THEN /\ analysis_results[i].action = "manual_review"
                      /\ analysis_results[i].score = Fx(0)
                      /\ analysis_results[i].confidence = Fx(0)
                      /\ Len(analysis_results[i].concerns) = 1
                 ELSE /\ analysis_results[i].action \in {"accept", "reject"}
                      /\ Len(analysis_results[i].reasoning) = 3
                      /\ analysis_results[i].confidence >= FxDiv(3, 10)

C6_Witness ==
    /\ Analyzed
    /\ Len(candidates) = 2
    /\ candidates[1].resume.fault # "none"
    /\ candidates[2].resume.fault = "none"
    /\ analysis_results[2].action = "accept"

\* C7: after Analyze the number of intervention entries equals the number of
\* manual_review Decisions.
C7_InterventionPerManualReview ==
    Analyzed => Len(human_interventions) = CountAction(analysis_results, "manual_review")

StageOrder ==
    <<"initialize_session", "load_resumes", "analyze_candidates", "send_emails",
      "generate_summary">>

CurrentStepOf(node) ==
    CASE node = "initialize_session" -> "initialization"
      [] node = "load_resumes" -> "loading_resumes"
      [] node = "analyze_candidates" -> "analyzing_candidates"
      [] node = "send_emails" -> "sending_emails"
      [] node = "generate_summary" -> "generating_summary"

\* C8: the stages run in the strict order Init, Load, Analyze, Notify,
\* Summarize, Done: the entered stages are always a prefix of that order (so
\* none is entered twice or before its predecessor), the next stage is the
\* successor of the last one, and the run ends only after all five.
C8_StrictStageOrder ==
    /\ Len(trace) <= Len(StageOrder)
    /\ trace = SubSeq(StageOrder, 1, Len(trace))
    /\ (trace # <<>> => current_step = CurrentStepOf(trace[Len(trace)]))
    /\ (pc \in Range(StageOrder) => pc = StageOrder[Len(trace) + 1])
    /\ (pc = "END" => trace = StageOrder)
    /\ (pc = "returned" => trace \in {<<>>, StageOrder})

C8_Witness ==
    /\ pc = "returned"
    /\ trace = StageOrder
    /\ analysis_results # <<>>

BatchLevelCondition ==
    \/ source.status = "not_found"
    \/ source.status = "ok" /\ ResumeFiles(source.files) = <<>>

\* C9: when Load meets a batch-level condition the error is appended to the
\* error list and Analyze, Notify and Summarize do no work: the error list
\* keeps the single Load error, no notification result and no session summary
\* is written, and the Decision list stays empty.
C9_BatchErrorShortCircuits ==
    (Loaded /\ BatchLevelCondition) =>
        /\ Len(errors) = 1
        /\ analysis_results = <<>>
        /\ email_results = [mode |-> "unset"]
        /\ ~session_summary.produced

\* C10: a run in which a Candidate survived Load and Summarize produced a
\* report returns the session report itself, even with a non-empty error
\* list; an error object is returned only without configuration or without
\* any Candidate.
C10_CompletedWithErrorsReturnsReport ==
    pc = "returned" =>
        /\ (candidates # <<>> /\ session_summary.produced => result.kind = "report")
        /\ (result.kind = "error" => ~config.has_keys \/ candidates = <<>>)

\* C11: a document whose text is under the minimum, or whose parsing or field
\* extraction fails, yields no Candidate: it is not among the candidates, has
\* no Decision, is not counted in total_candidates and has exactly one entry
\* in the error list, while every other resume document of the folder is a
\* Candidate.
C11_FailedDocumentDropped ==
    (Loaded /\ source.status = "ok") =>
        /\ Len(candidates) = Cardinality(SurvivingFiles)
        /\ \A f \in SurvivingFiles : \E i \in 1..Len(candidates) : candidates[i].file_name = f
        /\ \A f \in FailedFiles :
              /\ \A i \in 1..Len(candidates) : candidates[i].file_name # f
              /\ \A i \in 1..Len(analysis_results) : analysis_results[i].candidate.file_name # f
              /\ Cardinality({k \in 1..Len(errors) :
                                errors[k] = <<"Could not extract candidate info", f>>}) = 1
        /\ (session_summary.produced =>
               session_summary.session_info.total_candidates = Cardinality(SurvivingFiles))

C11_Witness ==
    /\ session_summary.produced
    /\ Len(source.files) = 2
    /\ source.files[1].kind = "short_text"
    /\ source.files[2].kind = "resume"
    /\ Len(analysis_results) = 1
    /\ analysis_results[1].candidate.file_name = 2
    /\ session_summary.session_info.total_candidates = 1

Sendable(decision) == decision.action \in {"accept", "reject"}

\* C12: Notify makes exactly one send attempt for every accept Decision
\* (acceptance template) and every reject Decision (rejection template), in
\* the order of the Decisions and addressed to the Decision's candidate email,
\* and none for a manual_review Decision.
C12_OneAttemptPerAcceptReject ==
    (Notified /\ analysis_results # <<>>) =>
        LET sendable == SelectSeq(analysis_results, Sendable)
            attempts == email_results.results
        IN /\ Len(attempts) = Len(sendable)
           /\ \A k \in 1..Len(sendable) :
                 /\ attempts[k].candidate_email = sendable[k].candidate.email
                 /\ attempts[k].candidate_name = sendable[k].candidate.name
                 /\ attempts[k].email_type = IF sendable[k].action = "accept"
                                             THEN "acceptance" ELSE "rejection"
           /\ \A i \in 1..Len(analysis_results) :
                 analysis_results[i].action = "manual_review" =>
                     \A k \in 1..Len(attempts) :
                        attempts[k].candidate_email # analysis_results[i].candidate.email

C12_Witness ==
    /\ Notified
    /\ Len(analysis_results) = 2
    /\ analysis_results[1].action = "manual_review"
    /\ analysis_results[2].action = "accept"
    /\ Len(email_results.results) = 1
    /\ email_results.results[1].email_type = "acceptance"
    /\ email_results.results[1].candidate_email = analysis_results[2].candidate.email

AllDelivered(results) == [i \in 1..Len(results) |-> TRUE]

\* C13: with email_enabled false Notify makes no call of the SMTP
\* collaborator, statistics.sent stays 0 and nothing fails, and every accept
\* or reject Decision is one simulated success: statistics.simulated (and the
\* count per template) equals statistics.sent of the enabled sender on the same
\* Decisions with every delivery succeeding.
C13_SimulationMirrorsLive ==
    (Notified /\ analysis_results # <<>> /\ ~config.email_enabled) =>
        LET live == send_screening_emails(analysis_results, TRUE, AllDelivered(analysis_results))
            st == email_results.statistics
        IN /\ smtp_log = <<>>
           /\ email_results.mode = "simulation"
           /\ st.sent = 0
           /\ st.failed = 0
           /\ st.simulated = Len(SelectSeq(analysis_results, Sendable))
           /\ st.simulated = live.statistics.sent
           /\ st.by_type = live.statistics.by_type
           /\ \A k \in 1..Len(email_results.results) : email_results.results[k].success

C13_Witness ==
    /\ Notified
    /\ ~config.email_enabled
    /\ Len(analysis_results) = 2
    /\ analysis_results[1].action = "accept"
    /\ analysis_results[2].action = "reject"
    /\ email_results.statistics.simulated = 2
    /\ email_results.statistics.sent = 0
    /\ smtp_log = <<>>

Unsuccessful(attempt) == ~attempt.success

\* C14: with the sender enabled, a delivery that fails is counted as one
\* failed entry and does not stop Notify: every accept or reject Decision,
\* also one after a failed delivery, has its send attempt and its SMTP call,
\* sent and failed add up to the attempts, and Notify ends with status
\* success and no error added to the error list.
C14_DeliveryFailureDoesNotHalt ==
    (Notified /\ analysis_results # <<>> /\ config.email_enabled) =>
        LET sendable == SelectSeq(analysis_results, Sendable)
            attempts == email_results.results
            st == email_results.statistics
        IN /\ Len(attempts) = Len(sendable)
           /\ smtp_log = [k \in 1..Len(sendable) |-> sendable[k].candidate.email]
           /\ st.failed = Len(SelectSeq(attempts, Unsuccessful))
           /\ st.sent + st.failed = Len(sendable)
           /\ st.simulated = 0
           /\ Len(errors) = Cardinality(FailedFiles)
           /\ (pc = "generate_summary" => step_results.status = "success")

C14_Witness ==
    /\ pc = "generate_summary"
    /\ config.email_enabled
    /\ Len(analysis_results) = 2
    /\ Len(email_results.results) = 2
    /\ ~email_results.results[1].success
    /\ email_results.results[2].success
    /\ email_results.statistics.failed = 1
    /\ email_results.statistics.sent = 1
    /\ Len(smtp_log) = 2

\* C15: the scoring formula never chooses manual_review: a Decision returned
\* by the rule-based path has action accept or reject, and the Decision of
\* analyze_resume is manual_review only if an analyzer raised on the candidate
\* (a raising generative call falls back to the rule-based Decision).
C15_ManualReviewOnlyOnError ==
    e_out.done =>
        /\ e_out.decision.action \in {"accept", "reject", "manual_review"}
        /\ (e_in.candidate.resume.fault = "none" =>
               e_out.decision.action \in {"accept", "reject"})
        /\ (e_out.decision.action = "manual_review" =>
               /\ e_in.candidate.resume.fault # "none"
               /\ e_out.decision.concerns
                    = <<(<<"Analysis error", e_in.candidate.resume.fault>>)>>)

C15_Witness ==
    /\ e_out.done
    /\ e_in.analyzer
    /\ e_in.candidate.resume.fault # "none"
    /\ e_out.decision.action = "manual_review"
    /\ e_in.score_threshold = 0

\* C16: running the Decision Engine again on the same Candidate and the same
\* JobRequirements gives an identical Decision (score, skills found and
\* missing, experience years and level, strengths, concerns, action, reasoning
\* and confidence).
C16_RerunIdentical ==
    ("second" \in DOMAIN e_out) => e_out.second = e_out.decision

\* C17: experience_years is the result of the first strategy, in the order
\* explicit mention, date ranges, seniority keywords, that is not 0: an
\* explicit mention of N > 0 years gives N whatever the date ranges and the
\* keywords imply, the date ranges count only when the explicit result is 0,
\* the keywords only when both are 0.
C17_ExperienceStrategyPrecedence ==
    (e_out.done /\ e_in.candidate.resume.fault = "none") =>
        LET resume == e_in.candidate.resume
            explicit == _extract_explicit_experience(resume)
            dates == _calculate_experience_from_dates(resume)
            keywords == _estimate_from_seniority_indicators(resume)
        IN e_out.decision.experience_years
             = IF explicit > 0 THEN explicit ELSE IF dates > 0 THEN dates ELSE keywords

C17_Witness ==
    /\ e_out.done
    /\ e_in.candidate.resume.fault = "none"
    /\ _extract_explicit_experience(e_in.candidate.resume) = 1
    /\ _calculate_experience_from_dates(e_in.candidate.resume) = 2
    /\ _estimate_from_seniority_indicators(e_in.candidate.resume) = 5
    /\ e_out.decision.experience_years = 1

\* scenario A: all five required skills found, 5 or more years stated, no
\* preferred skills listed, minimum experience 3, threshold 70
ScenarioA ==
    /\ e_out.done
    /\ e_in.job_req.required_skills = SkillPool
    /\ e_in.job_req.preferred_skills = <<>>
    /\ e_in.job_req.min_experience_years = 3
    /\ e_in.score_threshold = 70
    /\ Range(SkillPool) \subseteq e_in.candidate.resume.tokens
    /\ _extract_explicit_experience(e_in.candidate.resume) >= 5

\* C18 as stated: in scenario A the skills sub-score is 100, the experience
\* sub-score is 100, the overall score is at least 70 and the action is accept.
C18_ScenarioA ==
    ScenarioA =>
        /\ _analyze_skills(e_in.candidate.resume, e_in.job_req).score = Fx(100)
        /\ _analyze_experience(e_in.candidate.resume, e_in.job_req).score = Fx(100)
        /\ e_out.decision.score >= Fx(70)
        /\ e_out.decision.action = "accept"

\* C18 amended: in scenario A the skills sub-score is 80 (the preferred part
\* is 0 when no preferred skill is listed), the experience sub-score is 100,
\* the overall score is at least 70 (78 plus a tenth of the quality score) and
\* the action is accept.
C18_ScenarioA_Amended ==
    ScenarioA =>
        /\ _analyze_skills(e_in.candidate.resume, e_in.job_req).score = Fx(80)
        /\ _analyze_experience(e_in.candidate.resume, e_in.job_req).score = Fx(100)
        /\ e_out.decision.score >= Fx(78)
        /\ e_out.decision.score >= Fx(70)
        /\ e_out.decision.action = "accept"
        /\ e_out.decision.skills_missing = <<>>

C18_Witness ==
    /\ ScenarioA
    /\ ~e_in.analyzer
    /\ e_out.decision.experience_years = 5
    /\ e_out.decision.score = Fx(78)
    /\ e_out.decision.action = "accept"

\* scenario B: four of the five required skills missing, 1 year of
\* experience, threshold 70
ScenarioB ==
    /\ e_out.done
    /\ e_in.job_req.required_skills = SkillPool
    /\ e_in.score_threshold = 70
    /\ Len(FoundIn(SkillPool, e_in.candidate.resume)) = 1
    /\ _extract_explicit_experience(e_in.candidate.resume) = 1

\* C19: in scenario B, for every preferred-skills outcome, quality score and
\* minimum-experience requirement, the overall score is below 70, the action
\* is reject and the first concern is the missing-skills entry, which the cap
\* of 3 concerns keeps.
C19_ScenarioB ==
    ScenarioB =>
        /\ e_out.decision.score < Fx(70)
        /\ e_out.decision.action = "reject"
        /\ Len(e_out.decision.skills_missing) = 4
        /\ Len(e_out.decision.concerns) <= 3
        /\ e_out.decision.concerns[1] = <<"Missing required skills", 4>>

C19_Witness ==
    /\ ScenarioB
    /\ e_in.job_req.preferred_skills # <<>>
    /\ "nodejs" \in e_in.candidate.resume.tokens
    /\ e_in.job_req.min_experience_years = MaxMinExp
    /\ e_in.candidate.resume.word_count < 200
    /\ Len(e_out.decision.concerns) = 3
    /\ e_out.decision.action = "reject"

\* C20: the generative model is advisory: for the same Candidate and
\* JobRequirements the score and the action of the Decision are those of the
\* rule-based Decision whether the model is absent, loaded (whatever text it
\* generates) or raises in the call, and with the model absent or raising the
\* whole Decision is the rule-based one.
C20_ModelAdvisoryOnly ==
    e_out.done =>
        \E rule_decision \in {analyze_resume(e_in.candidate, e_in.job_req,
                                              e_in.score_threshold, FALSE)} :
           /\ e_out.decision.score = rule_decision.score
           /\ e_out.decision.action = rule_decision.action
           /\ (~e_in.analyzer \/ "raises" \in e_in.candidate.ai
                  => e_out.decision = rule_decision)

C20_Witness ==
    /\ e_out.done
    /\ e_in.analyzer
    /\ "raises" \in e_in.candidate.ai
    /\ e_in.candidate.resume.fault = "none"
    /\ e_out.decision.action = "accept"
    /\ e_out.decision.confidence = FxDiv(95, 100)

\* C21: for every Decision skills_found and skills_missing are disjoint and
\* skills_missing is the set of required skills minus skills_found.
C21_SkillsPartition ==
    e_out.done =>
        /\ Range(e_out.decision.skills_found) \cap Range(e_out.decision.skills_missing) = {}
        /\ Range(e_out.decision.skills_missing)
             = Range(e_in.job_req.required_skills) \ Range(e_out.decision.skills_found)

NonError == e_out.done /\ e_in.candidate.resume.fault = "none"

\* the number of skills of the list that the resume mentions
Mentions(skills, resume) ==
    Cardinality({i \in 1..Len(skills) : _skill_mentioned(skills[i], resume)})

\* C22: the score of a non-error Decision is 0.6 x skillsScore + 0.3 x
\* experienceScore + 0.1 x qualityScore, capped at 100 and rounded to one
\* decimal (a multiple of 0.1 at most 0.05 away), with skillsScore = 80% of the
\* found-required ratio (100% for an empty required list) plus 20% of the
\* found-preferred ratio (0 for an empty preferred list) and experienceScore =
\* min(100, 100 x years / minRequired), or 100 when minRequired is 0.
C22_OverallScoreFormula ==
    NonError =>
        LET resume == e_in.candidate.resume
            required == e_in.job_req.required_skills
            preferred == e_in.job_req.preferred_skills
            min_required == e_in.job_req.min_experience_years
            years == e_out.decision.experience_years
            required_pct == IF required = <<>> THEN 100 * Scale
                            ELSE (100 * Scale * Mentions(required, resume)) \div Len(required)
            preferred_pct == IF preferred = <<>> THEN 0
                             ELSE (100 * Scale * Mentions(preferred, resume)) \div Len(preferred)
            skills == (8 * required_pct + 2 * preferred_pct) \div 10
            experience == IF min_required = 0 \/ years >= min_required THEN 100 * Scale
                          ELSE (100 * Scale * years) \div min_required
            quality == Scale * _analyze_resume_quality(resume).score
            weighted == (6 * skills + 3 * experience + quality) \div 10
            capped == IF weighted > 100 * Scale THEN 100 * Scale ELSE weighted
        IN /\ e_out.decision.score % (Scale \div 10) = 0
           /\ 20 * (e_out.decision.score - capped) <= Scale
           /\ 20 * (capped - e_out.decision.score) <= Scale

C22_Witness ==
    /\ NonError
    /\ e_in.job_req.required_skills = <<"react", "javascript">>
    /\ e_in.job_req.preferred_skills = <<"node.js">>
    /\ e_in.job_req.min_experience_years = 7
    /\ e_in.candidate.resume.tokens = {"react"}
    /\ e_out.decision.experience_years = 3
    /\ _analyze_resume_quality(e_in.candidate.resume).score = 91
    /\ e_out.decision.score = Fx(46)

\* C23: the confidence of every non-error Decision returned by analyze_resume
\* is min(0.95, 0.7 + a + b + c): a is 0.2 for a score >= 85 or <= 30, else 0.1
\* for a score >= 75 or <= 40, else 0; b is 0.05 for a non-empty required list;
\* c is 0.05 for experience years > 0.
C23_ConfidenceFormula ==
    NonError =>
        LET score == e_out.decision.score
            a == IF score >= 85 * Scale \/ score <= 30 * Scale THEN 20
                 ELSE IF score >= 75 * Scale \/ score <= 40 * Scale THEN 10
                 ELSE 0
            b == IF e_in.job_req.required_skills # <<>> THEN 5 ELSE 0
            c == IF e_out.decision.experience_years > 0 THEN 5 ELSE 0
            hundredths == IF 70 + a + b + c > 95 THEN 95 ELSE 70 + a + b + c
        IN e_out.decision.confidence = (hundredths * Scale) \div 100

\* C24: the experience level of every Decision is one of Entry, Junior, Mid and
\* Senior and follows from the experience years alone: Senior from 7 years, Mid
\* from 3, Junior from 1, Entry below 1.
C24_ExperienceLevelByYears ==
    e_out.done =>
        LET years == e_out.decision.experience_years
        IN e_out.decision.experience_level =
               IF years >= 7 THEN "Senior"
               ELSE IF years >= 3 THEN "Mid-level"
               ELSE IF years >= 1 THEN "Junior"
               ELSE "Entry-level"

\* the items of the rules that fired, in the order the rules are evaluated
FiredItems(rules) ==
    LET Fired(rule) == rule[1]
        fired == SelectSeq(rules, Fired)
    IN [i \in 1..Len(fired) |-> fired[i][2]]

\* the strength rules on the inputs of the analysis, in evaluation order
StrengthRules ==
    LET resume == e_in.candidate.resume
        job_req == e_in.job_req
        quality_indicators == Range(_analyze_resume_quality(resume).indicators)
        level == e_out.decision.experience_level
    IN << <<10 * Mentions(job_req.required_skills, resume) >= 8 * Len(job_req.required_skills),
            <<"Strong technical skills match">> >>,
          <<Mentions(job_req.preferred_skills, resume) > 0, <<"Has preferred skills">> >>,
          <<level \in {"Senior", "Mid-level"}, <<"experience level", level>> >>,
          <<"Well-structured" \in quality_indicators, <<"Well-organized resume">> >>,
          <<"Professional language" \in quality_indicators, <<"Professional presentation">> >>,
          <<"Technical depth" \in quality_indicators, <<"Demonstrates technical depth">> >> >>

\* the concern rules on the inputs of the analysis, in evaluation order
ConcernRules ==
    LET resume == e_in.candidate.resume
        job_req == e_in.job_req
        quality == _analyze_resume_quality(resume)
        years == e_out.decision.experience_years
        missing == Len(e_out.decision.skills_missing)
    IN << <<missing = 1,
            IF missing = 1 THEN <<"Missing skill", e_out.decision.skills_missing[1]>> ELSE <<>> >>,
          <<missing > 1, <<"Missing required skills", missing>> >>,
          <<years < job_req.min_experience_years,
            <<"Only years experience", years, job_req.min_experience_years>> >>,
          <<years < 1 /\ job_req.min_experience_years > 1, <<"Entry-level for mid/senior role">> >>,
          <<quality.word_count < 200, <<"Resume lacks detail">> >>,
          <<quality.word_count > 2000, <<"Resume too lengthy">> >>,
          <<quality.score < 50, <<"Poor resume quality">> >> >>

IsCappedPrefix(kept, fired, cap) ==
    /\ Len(kept) = (IF Len(fired) > cap THEN cap ELSE Len(fired))
    /\ \A i \in 1..Len(kept) : kept[i] = fired[i]

\* C25: every Decision has at most 5 strengths and at most 3 concerns, and when
\* more rules fire than the cap allows the kept items are those of the
\* earliest-evaluated rules, in evaluation order.
C25_CapsKeepEarliestRules ==
    e_out.done =>
        /\ Len(e_out.decision.strengths) <= 5
        /\ Len(e_out.decision.concerns) <= 3
        /\ NonError =>
              /\ IsCappedPrefix(e_out.decision.strengths, FiredItems(StrengthRules), 5)
              /\ IsCappedPrefix(e_out.decision.concerns, FiredItems(ConcernRules), 3)

C25_Witness ==
    /\ NonError
    /\ Len(FiredItems(StrengthRules)) = 6
    /\ Len(e_out.decision.strengths) = 5
    /\ e_out.decision.strengths[5] = <<"Professional presentation">>

\* the number of years covered by at least one of the ranges
UnionLength(periods) ==
    Cardinality({y \in FirstYear..(FirstYear + MaxSpan) :
                    \E i \in 1..Len(periods) : periods[i][1] <= y /\ y < periods[i][2]})

\* C26: the date-range arithmetic (sort by start year, merge a range whose start
\* is <= the running end keeping the larger end, sum the merged lengths) returns,
\* for ranges with start <= end, the total length of the union of the ranges, and
\* never returns a negative number for any input.
C26_DateRangesUnionLength ==
    e_out.done =>
        /\ e_out.years >= 0
        /\ (\A i \in 1..Len(e_in.periods) : e_in.periods[i][1] <= e_in.periods[i][2])
              => e_out.years = UnionLength(e_in.periods)

C26_Witness ==
    /\ e_out.done
    /\ e_in.periods = << <<FirstYear + 1, FirstYear + 2>>, <<FirstYear, FirstYear + 2>>,
                         <<FirstYear, FirstYear + 1>> >>
    /\ e_out.years = 2

\* the number of Decisions whose score lies in [lo, hi) percent
ScoresWithin(results, lo, hi) ==
    Cardinality({i \in 1..Len(results) :
                    results[i].score >= lo * Scale /\ results[i].score < hi * Scale})

\* the aggregates of the summary as functions of the workflow state
AggregatesOf(summary, results, errs, interventions) ==
    LET total == SumScores(results)
        n == Len(results)
        average == summary.results.average_score
        distribution == summary.results.score_distribution
    IN /\ summary.results.accepted = CountAction(results, "accept")
       /\ summary.results.rejected = CountAction(results, "reject")
       /\ average % (Scale \div 10) = 0
       /\ average * n - total <= (Scale \div 20) * n + n
       /\ total - average * n <= (Scale \div 20) * n + n
       /\ IF n = 0 THEN average = 0 /\ distribution = <<>>
          ELSE /\ distribution["90-100%"] = ScoresWithin(results, 90, 101)
               /\ distribution["80-89%"] = ScoresWithin(results, 80, 90)
               /\ distribution["70-79%"] = ScoresWithin(results, 70, 80)
               /\ distribution["60-69%"] = ScoresWithin(results, 60, 70)
               /\ distribution["50-59%"] = ScoresWithin(results, 50, 60)
               /\ distribution["Below 50%"] = ScoresWithin(results, 0, 50)
       /\ summary.error_summary.total_errors = Len(errs)
       /\ summary.error_summary.human_interventions_needed = Len(interventions)
       /\ summary.detailed_results = results

\* C27: Summarize leaves the candidate list, the Decision list, the notification
\* results, the error list and the intervention list unchanged, writes only the
\* session summary and the step status, and the aggregates it writes are
\* functions of that unchanged state.
C27_SummarizeIsPureAggregation ==
    [][GenerateSummary =>
          /\ UNCHANGED <<candidates, analysis_results, email_results, errors,
                         human_interventions, config, job_requirements, source, result,
                         smtp_log>>
          /\ session_summary'.produced
          /\ AggregatesOf(session_summary', analysis_results, errors, human_interventions)]_vars

C27_Witness ==
    /\ session_summary.produced
    /\ pc = "END"
    /\ Len(analysis_results) = 2
    /\ session_summary.results.accepted = 1
    /\ session_summary.results.rejected = 1
    /\ session_summary.results.score_distribution["Below 50%"] = 1

\* sub is a subsequence of full under the matching Same(sub item, full item):
\* its items are matched, in order, by distinct items of full
IsSubsequence(sub, full, Same(_, _)) ==
    \E f \in [1..Len(sub) -> 1..Len(full)] :
        /\ \A i, j \in 1..Len(sub) : i < j => f[i] < f[j]
        /\ \A i \in 1..Len(sub) : Same(sub[i], full[f[i]])

DecisionOf(decision, candidate) == decision.candidate = candidate

CandidateOf(candidate, file_info) ==
    file_info.kind # "other" /\ candidate.file_name = file_info.name

\* C28: each Candidate that enters Analyze gets at most one Decision and the
\* Decisions of the report are an order-preserving subsequence of the loaded
\* candidate list, which is in the order of the source listing.
C28_DecisionsKeepInputOrder ==
    /\ IsSubsequence(candidates, source.files, CandidateOf)
    /\ IsSubsequence(analysis_results, candidates, DecisionOf)
    /\ session_summary.produced =>
          IsSubsequence(session_summary.detailed_results, candidates, DecisionOf)
    /\ result.kind = "report" =>
          IsSubsequence(result.report.detailed_results, candidates, DecisionOf)

C28_Witness ==
    /\ session_summary.produced
    /\ Len(source.files) = 2
    /\ Len(candidates) = 2
    /\ candidates[1] # candidates[2]
    /\ Len(session_summary.detailed_results) = 2
    /\ session_summary.detailed_results[1].candidate = candidates[1]
    /\ session_summary.detailed_results[2].candidate = candidates[2]

\* C29: for a source listing with n matching resume files the Candidates
\* returned by Load plus the per-file error messages returned number n.
C29_LoadAccountsForEveryFile ==
    [][(LoadResumes /\ source.status = "ok" /\ ResumeFiles(source.files) # <<>>) =>
          /\ Len(candidates') + (Len(errors') - Len(errors)) = Len(ResumeFiles(source.files))
          /\ step_results'.status = "success"
          /\ step_results'.candidates_loaded + step_results'.errors_encountered
                = Len(ResumeFiles(source.files))]_vars

C29_Witness ==
    /\ current_step = "loading_resumes"
    /\ Len(ResumeFiles(source.files)) = 2
    /\ Len(candidates) = 1
    /\ Len(errors) = 1
    /\ errors[1][1] = "Could not extract candidate info"

LoadHasRun == "load_resumes" \in Range(trace)

\* C30: whenever Load yields zero Candidates (folder not found, no matching
\* files, source API error, every document dropped) the error list is non-empty
\* from then on and run_screening returns the error object 'Workflow completed
\* with errors'; a bare session report is returned only when the error list is
\* empty at the end of the run.
C30_EmptyLoadEndsInErrorObject ==
    /\ (LoadHasRun /\ candidates = <<>>) => errors # <<>>
    /\ (LoadHasRun /\ candidates = <<>> /\ pc = "returned") =>
          /\ result.kind = "error"
          /\ result.error = "Workflow completed with errors"
          /\ result.errors = errors
    /\ result.kind = "report" => errors = <<>>

C30_Witness ==
    /\ pc = "returned"
    /\ source.status = "ok"
    /\ Len(ResumeFiles(source.files)) = 2
    /\ candidates = <<>>
    /\ Len(errors) = 3
    /\ result.kind = "error"
    /\ result.error = "Workflow completed with errors"

====
